---- MODULE Spec2Model ----
(***************************************************************************)
(* Journey lifecycle and fare settlement of the metro ticketing backend.   *)
(*                                                                         *)
(* The database (PostgreSQL, READ COMMITTED) is the shared state.  Every   *)
(* `await query(...)` of a controller is one autocommit transaction, so a  *)
(* request handler is a sequence of steps that interleave with the steps   *)
(* of the other handlers.  Inside a stored procedure every statement takes *)
(* a fresh snapshot; writes become visible at commit; an UPDATE waits for  *)
(* the row lock and then works on the latest committed row version.        *)
(*                                                                         *)
(* Money is in paise (1/100 rupee), time in clock ticks.                   *)
(***************************************************************************)
EXTENDS Integers, Sequences, FiniteSets, TLC

\* ------------------------------------------------------------------ bounds
MaxTime == 3          \* the clock stops after this many ticks
MaxJourneys == 2      \* Journey rows that may be inserted
MaxRecharges == 1     \* Recharge rows that may be inserted
MaxTickets == 1       \* Ticket rows that may be inserted
TicksPerDay == 2      \* clock ticks in one calendar day (24 hours)

\* --------------------------------------------------------- program constants
NULL == -1                  \* SQL NULL of a nullable integer/decimal/timestamp column
MinEntryBalance == 1000     \* 10.00, the floor a card needs at entry
BalanceLimit == 1000000     \* 10000.00, chk_smartcard_balance_limit
RechargeMin == 1000         \* validators.rechargeCard min
RechargeMax == 1000000      \* validators.rechargeCard max
ValidityHours == 24         \* bookTicket passes 24 hours of validity
HoursPerDay == 24
OneSecond == 1              \* INTERVAL '1 second' added to ExitTime

Procs == {1, 2}             \* concurrently served requests
Users == {1}                \* user 1 owns card 1
MediaIds == {1}             \* media ids the gates send
EntryStations == {2}        \* station ids the entry gates send
ExitStations == {1, 3}      \* station ids the exit gates send
TerminusStations == {1}     \* exit gates of the runs that include recharges
RechargeAmounts == {3000, 1000000}
BookSources == {2}          \* source station ids bookTicket is called with
BookDestinations == {1, 3}  \* destination station ids bookTicket is called with

\* SmartCard rows present from the start (sample data style fixture).
InitialCards ==
    [c \in {1} |-> [userid |-> 1, balance |-> 3000, isactive |-> TRUE,
                    lastusedat |-> NULL]]

\* Variant: every station id names an open station.
Station_any ==
    [s \in {1, 2, 3, 4, 5} |-> [stationid |-> s, isoperational |-> TRUE]]

\* Station table: read only for the core (owned by the admin side).
Station ==
    [s \in {1, 2, 3, 4} |-> [stationid |-> s, isoperational |-> (s # 4)]]

\* Fare table: read only for the core.  Dates are day numbers.
Fare ==
    { [src |-> 1, dst |-> 2, amount |-> 2000, from |-> -1, until |-> 0],
      [src |-> 1, dst |-> 2, amount |-> 3000, from |-> 0, until |-> NULL],
      [src |-> 1, dst |-> 2, amount |-> 4000, from |-> 1, until |-> NULL],
      [src |-> 1, dst |-> 3, amount |-> 5000, from |-> 0, until |-> NULL],
      [src |-> 2, dst |-> 1, amount |-> 3000, from |-> 0, until |-> NULL],
      [src |-> 2, dst |-> 3, amount |-> 1500, from |-> 0, until |-> NULL] }

VARIABLES
    now,          \* the clock (CURRENT_TIMESTAMP / new Date())
    smartcard,    \* SmartCard table: cardid -> row
    ticket,       \* Ticket table: sequence of rows, ticketid = index
    booking,      \* Booking table
    transaction,  \* Transaction table
    payment,      \* Payment table
    recharge,     \* Recharge table
    journey,      \* Journey table: sequence of rows, journeyid = index
    logs,         \* Logs table (audit trail), in insertion order
    rowlock,      \* journeyids whose row is locked by an open UPDATE
    proc,         \* per request: position in its handler and its locals
    exitDone      \* media whose last gate event was a successful exit response

db == <<smartcard, ticket, booking, transaction, payment, recharge, journey, logs>>
vars == <<now, smartcard, ticket, booking, transaction, payment, recharge,
          journey, logs, rowlock, proc, exitDone>>

\* ------------------------------------------------------------------ helpers
CurrentDate(t) == t \div TicksPerDay

\* Variant: the oldest row in force is taken (ORDER BY EffectiveFrom ASC).
get_current_fare_oldest(src, dst, today) ==
    LET rows == {f \in Fare : /\ f.src = src
                              /\ f.dst = dst
                              /\ f.from <= today
                              /\ (f.until = NULL \/ f.until > today)}
    IN  IF rows = {} THEN 0
        ELSE (CHOOSE f \in rows : \A g \in rows : g.from >= f.from).amount

\* get_current_fare: newest row in force on the given day, 0.00 if none.
get_current_fare(src, dst, today) ==
    LET rows == {f \in Fare : /\ f.src = src
                              /\ f.dst = dst
                              /\ f.from <= today
                              /\ (f.until = NULL \/ f.until > today)}
    IN  IF rows = {} THEN 0
        ELSE (CHOOSE f \in rows : \A g \in rows : g.from <= f.from).amount

\* log_insert / log_update: one Logs row with the row images.
log_insert(tbl, id, new) ==
    [tbl |-> tbl, op |-> "INSERT", id |-> id, old |-> <<>>, new |-> <<new>>]

\* Variant: the before image is taken from the row after the update.
log_update_new_only(tbl, id, old, new) ==
    [tbl |-> tbl, op |-> "UPDATE", id |-> id, old |-> <<new>>, new |-> <<new>>]

log_update(tbl, id, old, new) ==
    [tbl |-> tbl, op |-> "UPDATE", id |-> id, old |-> <<old>>, new |-> <<new>>]

\* Variant: the SmartCard table without its two balance constraints.
chk_smartcard_balance_dropped(b) == TRUE

\* chk_smartcard_balance_nonnegative and chk_smartcard_balance_limit
chk_smartcard_balance(b) == b >= 0 /\ b <= BalanceLimit

NoResult == [ok |-> FALSE, kind |-> "none", journeyId |-> NULL,
             fareCharged |-> NULL, previousBalance |-> NULL, newBalance |-> NULL,
             warning |-> FALSE, event |-> "none", eventJourneyId |-> NULL,
             eventFareCharged |-> NULL]

IdleProc ==
    [pc |-> "idle", op |-> "none", mediaType |-> "none", mediaId |-> NULL,
     stationId |-> NULL, stationIdType |-> "number", userId |-> NULL, amount |-> NULL, cardId |-> NULL,
     journeyId |-> NULL, destinationstationid |-> NULL, paidFare |-> NULL,
     currentBalance |-> NULL, txnTime |-> NULL, v_fare |-> NULL,
     actualFare |-> NULL, fare |-> NULL, warning |-> FALSE, conc |-> FALSE, afterExit |-> FALSE,
     transactionId |-> NULL,
     result |-> NoResult]

\* ResponseHandler.success / ResponseHandler.error / the errorHandler
\* middleware: the request is answered; of the handler's locals only what the
\* response carries survives.
Answer(me, r) ==
    [IdleProc EXCEPT !.pc = "done", !.op = me.op, !.mediaType = me.mediaType,
                     !.mediaId = me.mediaId, !.amount = me.amount,
                     !.fare = IF r.ok THEN me.actualFare ELSE NULL,
                     !.conc = r.ok /\ me.conc,
                     !.result = r]

Respond(p, r) == [proc EXCEPT ![p] = Answer(proc[p], r)]

\* The same for a request that is answered with what it asked for unchanged.
Refuse(me, r) == [me EXCEPT !.pc = "done", !.result = r]

Failure(kind) == [NoResult EXCEPT !.kind = kind]

\* Variant: the entry event is not emitted.
emitJourneyEntry_dropped(r, journeyId) == r

\* systemEvents.emitJourneyEntry / emitJourneyExit: called between the return
\* of the database function and the response; the event leaves with the
\* answer.
emitJourneyEntry(r, journeyId) ==
    [r EXCEPT !.event = "JOURNEY_ENTRY", !.eventJourneyId = journeyId]

emitJourneyExit(r, journeyId, fareCharged) ==
    [r EXCEPT !.event = "JOURNEY_EXIT", !.eventJourneyId = journeyId,
              !.eventFareCharged = fareCharged]

ActiveJourneys(mt, mid) ==
    {j \in DOMAIN journey :
        /\ journey[j].status = "Active"
        /\ IF mt = "Ticket" THEN journey[j].ticketid = mid
                            ELSE journey[j].cardid = mid}

Init ==
    /\ now = 0
    /\ smartcard = InitialCards
    /\ ticket = <<>>
    /\ booking = <<>>
    /\ transaction = <<>>
    /\ payment = <<>>
    /\ recharge = <<>>
    /\ journey = <<>>
    /\ logs = <<>>
    /\ rowlock = {}
    /\ proc = [p \in Procs |-> IdleProc]
    /\ exitDone = {}

\* The clock advances between any two steps.
Tick ==
    /\ now < MaxTime
    /\ now' = now + 1
    /\ UNCHANGED <<db, rowlock, proc, exitDone>>

\* The response has been sent; the request slot is free again.
Return(p) ==
    /\ proc[p].pc = "done"
    /\ proc' = [proc EXCEPT ![p] = IdleProc]
    /\ UNCHANGED <<now, db, rowlock, exitDone>>


\* Number of requests currently inside a handler of the given kind.
InFlight(op) == Cardinality({q \in Procs : proc[q].op = op /\ proc[q].pc # "done"})

\* ------------------------------------------------------------- bookTicket
\* Variant: the Payment row is not inserted.
create_ticket_booking_no_payment(u, src, dst, t) ==
    LET v_fare == get_current_fare(src, dst, CurrentDate(t))
        tid == Len(transaction) + 1
        bid == Len(booking) + 1
        pid == Len(payment) + 1
        kid == Len(ticket) + 1
        trow == [userid |-> u, amount |-> v_fare, transactiontype |-> "Booking"]
        brow == [transactionid |-> tid, sourcestationid |-> src,
                 destinationstationid |-> dst, totalfare |-> v_fare]
        prow == [transactionid |-> tid, status |-> "Success"]
        krow == [bookingid |-> bid, qrcodedata |-> <<bid, t>>, validfrom |-> t,
                 validuntil |-> t + (ValidityHours * TicksPerDay) \div HoursPerDay,
                 isused |-> FALSE, usedat |-> NULL]
    IN  /\ transaction' = Append(transaction, trow)
        /\ booking' = Append(booking, brow)
        /\ payment' = payment
        /\ ticket' = Append(ticket, krow)
        /\ logs' = logs \o << log_insert("transaction", tid, trow),
                              log_insert("booking", bid, brow),
                              log_insert("ticket", kid, krow) >>

\* create_ticket_booking: Transaction, Booking, Payment and Ticket in one
\* transaction, each insert followed by its audit row.
create_ticket_booking(u, src, dst, t) ==
    LET v_fare == get_current_fare(src, dst, CurrentDate(t))
        tid == Len(transaction) + 1
        bid == Len(booking) + 1
        pid == Len(payment) + 1
        kid == Len(ticket) + 1
        trow == [userid |-> u, amount |-> v_fare, transactiontype |-> "Booking"]
        brow == [transactionid |-> tid, sourcestationid |-> src,
                 destinationstationid |-> dst, totalfare |-> v_fare]
        prow == [transactionid |-> tid, status |-> "Success"]
        krow == [bookingid |-> bid, qrcodedata |-> <<bid, t>>, validfrom |-> t,
                 validuntil |-> t + (ValidityHours * TicksPerDay) \div HoursPerDay,
                 isused |-> FALSE, usedat |-> NULL]
    IN  /\ transaction' = Append(transaction, trow)
        /\ booking' = Append(booking, brow)
        /\ payment' = Append(payment, prow)
        /\ ticket' = Append(ticket, krow)
        /\ logs' = logs \o << log_insert("transaction", tid, trow),
                              log_insert("booking", bid, brow),
                              log_insert("payment", pid, prow),
                              log_insert("ticket", kid, krow) >>

\* Variant: create_ticket_booking does not test the fare.
NoFareFound_never(v_fare) == FALSE

\* create_ticket_booking: IF v_fare <= 0 THEN RAISE EXCEPTION 'No fare found'
NoFareFound(v_fare) == v_fare <= 0

\* Variant: the handler does not compare the two stations.
SameStation_never(src, dst) == FALSE

\* if (fromStationId === toStationId); both ids of a request have one type.
SameStation(src, dst) == src = dst

\* stationsResult.rows.find(s => s.stationid === fromStationId): the row of
\* an integer column is found only by a number.
StationRowFound(ty) == ty = "number"

\* The handler: the stations are compared, create_ticket_booking runs and
\* commits, then the two station rows are fetched for the answer.
bookTicket(p, routes, types, limit) ==
    /\ proc[p].pc = "idle"
    /\ Len(ticket) < limit
    /\ \E u \in Users, route \in routes, ty \in types :
         LET src == route[1]
             dst == route[2]
             me == [IdleProc EXCEPT !.op = "book", !.userId = u, !.stationId = src,
                                     !.destinationstationid = dst]
         IN  IF SameStation(src, dst)
             THEN /\ proc' = [proc EXCEPT ![p] =
                        Refuse(me, Failure("InvalidRoute"))]
                  /\ UNCHANGED db
             ELSE IF NoFareFound(get_current_fare(src, dst, CurrentDate(now)))
             THEN /\ proc' = [proc EXCEPT ![p] =
                        Refuse(me, Failure("NoFareDefined"))]
                  /\ UNCHANGED db
             ELSE IF ~StationRowFound(ty)
             THEN /\ create_ticket_booking(u, src, dst, now)
                  /\ proc' = [proc EXCEPT ![p] =
                        Refuse(me, Failure("InternalError"))]
                  /\ UNCHANGED <<smartcard, recharge, journey>>
             ELSE /\ create_ticket_booking(u, src, dst, now)
                  /\ proc' = [proc EXCEPT ![p] =
                        [me EXCEPT !.pc = "done", !.mediaType = "Ticket",
                                   !.mediaId = Len(ticket) + 1,
                                   !.result = [NoResult EXCEPT !.ok = TRUE, !.kind = "ok",
                                       !.fareCharged =
                                           get_current_fare(src, dst, CurrentDate(now))]]]
                  /\ UNCHANGED <<smartcard, recharge, journey>>
    /\ UNCHANGED <<now, rowlock, exitDone>>

\* ------------------------------------------------------------ journeyEntry
\* The request arrives; the station lookup is its first query.
journeyEntryRequest(p, mt, stations, types) ==
    /\ proc[p].pc = "idle"
    /\ Len(journey) + InFlight("entry") < MaxJourneys
    /\ \E mid \in MediaIds, st \in stations, ty \in types :
         LET me == [IdleProc EXCEPT !.op = "entry", !.mediaType = mt,
                                     !.mediaId = mid, !.stationId = st,
                                     !.stationIdType = ty]
         IN  /\ proc' = [q \in Procs |->
                   IF q = p
                   THEN IF st \notin DOMAIN Station
                        THEN Refuse(me, Failure("StationNotFound"))
                        ELSE IF ~Station[st].isoperational
                        THEN Refuse(me, Failure("StationNotOperational"))
                        ELSE [me EXCEPT !.pc = "entry_media"]
                   ELSE IF proc[q].op = "exit" /\ proc[q].mediaType = mt
                           /\ proc[q].mediaId = mid
                        THEN [proc[q] EXCEPT !.afterExit = FALSE]
                        ELSE proc[q]]
             /\ exitDone' = exitDone \ {<<mt, mid>>}
    /\ UNCHANGED <<now, db, rowlock>>

\* The entry request whose stationId is a JSON number, as the gate client
\* sends it.
journeyEntryBegin(p, mt, stations) == journeyEntryRequest(p, mt, stations, {"number"})

\* Variant: the station of entry is not compared with the booking's source.
WrongEntryStation_never(ty, source, st) == FALSE

\* journeyEntry: if (ticket.sourcestationid !== stationId); the integer column
\* is never strictly equal to a body value of another type.
WrongEntryStation(ty, source, st) == ty # "number" \/ source # st

\* Variant: the last instant of the validity period is not admitted.
OutsideValidity_at_end(t, row) == t < row.validfrom \/ t >= row.validuntil

\* journeyEntry: if (now < validFrom || now > validUntil)
OutsideValidity(t, row) == t < row.validfrom \/ t > row.validuntil

\* The ticket (joined with its booking) or the card is read and checked.
entryValidateMedia(p) ==
    /\ proc[p].pc = "entry_media"
    /\ LET me == proc[p]
           mid == me.mediaId
       IN  proc' =
             IF me.mediaType = "Ticket"
             THEN IF mid \notin DOMAIN ticket
                  THEN Respond(p, Failure("TicketNotFound"))
                  ELSE IF ticket[mid].isused
                  THEN Respond(p, Failure("TicketUsed"))
                  ELSE IF OutsideValidity(now, ticket[mid])
                  THEN Respond(p, Failure("TicketInvalid"))
                  ELSE IF WrongEntryStation(me.stationIdType,
                                            booking[ticket[mid].bookingid].sourcestationid,
                                            me.stationId)
                  THEN Respond(p, Failure("WrongEntryStation"))
                  ELSE [proc EXCEPT ![p].pc = "entry_existing"]
             ELSE IF mid \notin DOMAIN smartcard
                  THEN Respond(p, Failure("CardNotFound"))
                  ELSE IF ~smartcard[mid].isactive
                  THEN Respond(p, Failure("CardInactive"))
                  ELSE IF smartcard[mid].balance < MinEntryBalance
                  THEN Respond(p, Failure("InsufficientFunds"))
                  ELSE [proc EXCEPT ![p].pc = "entry_existing",
                                    ![p].currentBalance = smartcard[mid].balance]
    /\ UNCHANGED <<now, db, rowlock, exitDone>>

\* SELECT journeyid FROM journey WHERE <media> AND status = 'Active'
entryCheckExisting(p) ==
    /\ proc[p].pc = "entry_existing"
    /\ proc' = IF ActiveJourneys(proc[p].mediaType, proc[p].mediaId) # {}
               THEN Respond(p, Failure("JourneyAlreadyActive"))
               ELSE [proc EXCEPT ![p].pc = "start_validate"]
    /\ UNCHANGED <<now, db, rowlock, exitDone>>

\* start_journey, first statement: the procedure re-reads the media.
start_journey_validate(p) ==
    /\ proc[p].pc = "start_validate"
    /\ LET me == proc[p]
           mid == me.mediaId
           valid == IF me.mediaType = "Ticket"
                    THEN /\ ~ticket[mid].isused
                         /\ ticket[mid].validfrom <= now
                         /\ ticket[mid].validuntil >= now
                    ELSE /\ smartcard[mid].isactive
                         /\ smartcard[mid].balance >= MinEntryBalance
       IN  proc' = IF valid
                   THEN [proc EXCEPT ![p].pc = "start_insert", ![p].txnTime = now]
                   ELSE Respond(p, Failure("InternalError"))
    /\ UNCHANGED <<now, db, rowlock, exitDone>>

\* Variant: the inserted row carries a card reference whatever its kind.
NewJourneyRow_both_media(mt, mid, st, t) ==
    [journeytype |-> mt,
     ticketid |-> IF mt = "Ticket" THEN mid ELSE NULL,
     cardid |-> mid,
     entrystationid |-> st, entrytime |-> t,
     exitstationid |-> NULL, exittime |-> NULL, farededucted |-> NULL,
     status |-> "Active"]

\* Variant: the inserted row takes a status other than 'Active'.
NewJourneyRow_completed(mt, mid, st, t) ==
    [journeytype |-> mt,
     ticketid |-> IF mt = "Ticket" THEN mid ELSE NULL,
     cardid |-> IF mt = "Card" THEN mid ELSE NULL,
     entrystationid |-> st, entrytime |-> t,
     exitstationid |-> NULL, exittime |-> NULL, farededucted |-> NULL,
     status |-> "Completed"]

\* The Journey row start_journey inserts.
NewJourneyRow(mt, mid, st, t) ==
    [journeytype |-> mt,
     ticketid |-> IF mt = "Ticket" THEN mid ELSE NULL,
     cardid |-> IF mt = "Card" THEN mid ELSE NULL,
     entrystationid |-> st, entrytime |-> t,
     exitstationid |-> NULL, exittime |-> NULL, farededucted |-> NULL,
     status |-> "Active"]

\* Variant: the trigger that marks the ticket is missing.
mark_ticket_used_missing(jrow) == [tbl |-> ticket, log |-> <<>>]

\* mark_ticket_used: AFTER INSERT ON Journey; its UPDATE carries
\* AND IsUsed = FALSE, so it touches the row only when the ticket is unused.
mark_ticket_used(jrow) ==
    IF jrow.ticketid # NULL /\ ~ticket[jrow.ticketid].isused
    THEN LET old == ticket[jrow.ticketid]
             new == [old EXCEPT !.isused = TRUE, !.usedat = jrow.entrytime]
         IN  [tbl |-> [ticket EXCEPT ![jrow.ticketid] = new],
              log |-> <<log_update("ticket", jrow.ticketid, old, new)>>]
    ELSE [tbl |-> ticket, log |-> <<>>]

\* Variant: the trigger of the entry also takes the entry floor off the card.
update_card_last_used_debits(jrow, t) ==
    IF jrow.cardid # NULL
    THEN LET old == smartcard[jrow.cardid]
             new == [old EXCEPT !.lastusedat = t,
                                !.balance = old.balance - MinEntryBalance]
         IN  [tbl |-> [smartcard EXCEPT ![jrow.cardid] = new],
              log |-> <<log_update("smartcard", jrow.cardid, old, new)>>]
    ELSE [tbl |-> smartcard, log |-> <<>>]

\* update_card_last_used: AFTER INSERT ON Journey.
update_card_last_used(jrow, t) ==
    IF jrow.cardid # NULL
    THEN LET old == smartcard[jrow.cardid]
             new == [old EXCEPT !.lastusedat = t]
         IN  [tbl |-> [smartcard EXCEPT ![jrow.cardid] = new],
              log |-> <<log_update("smartcard", jrow.cardid, old, new)>>]
    ELSE [tbl |-> smartcard, log |-> <<>>]

\* start_journey, INSERT INTO Journey with its AFTER INSERT triggers, commit,
\* then the controller's success response.
start_journey_insert(p) ==
    /\ proc[p].pc = "start_insert"
    /\ LET me == proc[p]
           jid == Len(journey) + 1
           jrow == NewJourneyRow(me.mediaType, me.mediaId, me.stationId, me.txnTime)
           tk == mark_ticket_used(jrow)
           sc == update_card_last_used(jrow, me.txnTime)
       IN  /\ journey' = Append(journey, jrow)
           /\ ticket' = tk.tbl
           /\ smartcard' = sc.tbl
           /\ logs' = logs \o <<log_insert("journey", jid, jrow)>> \o tk.log \o sc.log
           /\ proc' = [q \in Procs |->
                 IF q = p
                 THEN Respond(p, emitJourneyEntry(
                                     [NoResult EXCEPT !.ok = TRUE, !.kind = "ok",
                                                      !.journeyId = jid], jid))[p]
                 ELSE IF proc[q].op = "exit" /\ proc[q].mediaType = me.mediaType
                         /\ proc[q].mediaId = me.mediaId
                      THEN [proc[q] EXCEPT !.afterExit = FALSE]
                      ELSE proc[q]]
           /\ exitDone' = exitDone \ {<<me.mediaType, me.mediaId>>}
    /\ UNCHANGED <<now, booking, transaction, payment, recharge, rowlock>>

\* ------------------------------------------------------------- journeyExit
\* The request arrives; the station lookup is its first query.
journeyExitBegin(p, mt, stations, types) ==
    /\ proc[p].pc = "idle"
    /\ \E mid \in MediaIds, st \in stations, ty \in types :
         LET others == {q \in Procs \ {p} :
                           /\ proc[q].op = "exit" /\ proc[q].pc # "done"
                           /\ proc[q].mediaType = mt /\ proc[q].mediaId = mid}
             me == [IdleProc EXCEPT !.op = "exit", !.mediaType = mt,
                                     !.mediaId = mid, !.stationId = st,
                                     !.stationIdType = ty,
                                     !.afterExit = (<<mt, mid>> \in exitDone)]
         IN  proc' = [q \in Procs |->
                 IF q = p
                 THEN IF st \notin DOMAIN Station
                      THEN Refuse(me, Failure("StationNotFound"))
                      ELSE IF ~Station[st].isoperational
                      THEN Refuse(me, Failure("StationNotOperational"))
                      ELSE [me EXCEPT !.pc = "exit_find", !.conc = (others # {})]
                 ELSE IF q \in others /\ st \in DOMAIN Station /\ Station[st].isoperational
                      THEN [proc[q] EXCEPT !.conc = TRUE]
                      ELSE proc[q]]
    /\ UNCHANGED <<now, db, rowlock, exitDone>>

\* SELECT ... FROM journey WHERE <media> AND status = 'Active'; the handler
\* takes rows[0] of a query without ORDER BY.
exitFindJourney(p) ==
    /\ proc[p].pc = "exit_find"
    /\ LET me == proc[p]
           found == ActiveJourneys(me.mediaType, me.mediaId)
       IN  IF found = {}
           THEN proc' = Respond(p, Failure("NoActiveJourney"))
           ELSE \E j \in found :
                  proc' = IF me.mediaType = "Ticket"
                          THEN LET b == booking[ticket[me.mediaId].bookingid]
                               IN  [proc EXCEPT ![p].pc = "exit_ticket_fare",
                                       ![p].journeyId = j,
                                       ![p].destinationstationid = b.destinationstationid,
                                       ![p].paidFare = b.totalfare]
                          ELSE [proc EXCEPT ![p].pc = "exit_card_balance",
                                            ![p].journeyId = j]
    /\ UNCHANGED <<now, db, rowlock, exitDone>>

\* Variant: the two ids are compared by value alone, as == would.
StrictNotEqual_loose(ty, a, b) == a # b

\* stationId !== expectedExitStationId: the body's value against the integer
\* column; a value of another type is never strictly equal to it.
StrictNotEqual(ty, a, b) == ty # "number" \/ a # b

\* Variant: the fare paid is never compared with the actual fare.
FareShortfall_never(actualFare, paidFare) == FALSE

\* if (actualFare > paidFare): the ride costs more than the ticket paid for.
FareShortfall(actualFare, paidFare) == actualFare > paidFare

\* Ticket: the actual fare of the travelled route against the fare paid.
exitTicketFare(p) ==
    /\ proc[p].pc = "exit_ticket_fare"
    /\ LET me == proc[p]
           actualFare == get_current_fare(journey[me.journeyId].entrystationid,
                                          me.stationId, CurrentDate(now))
       IN  proc' = IF FareShortfall(actualFare, me.paidFare)
                   THEN Respond(p, Failure("FareShortfall"))
                   ELSE [proc EXCEPT ![p].pc = "complete_select",
                                     ![p].actualFare = actualFare,
                                     ![p].warning =
                                         StrictNotEqual(me.stationIdType, me.stationId,
                                                        me.destinationstationid)]
    /\ UNCHANGED <<now, db, rowlock, exitDone>>

\* Variant: the handler takes the balance for zero whatever the card holds.
exitCardBalance_unread(p) ==
    /\ proc[p].pc = "exit_card_balance"
    /\ proc' = [proc EXCEPT ![p].pc = "exit_card_fare",
                            ![p].currentBalance = 0]
    /\ UNCHANGED <<now, db, rowlock, exitDone>>

\* Card: SELECT balance FROM smartcard
exitCardBalance(p) ==
    /\ proc[p].pc = "exit_card_balance"
    /\ proc' = [proc EXCEPT ![p].pc = "exit_card_fare",
                            ![p].currentBalance = smartcard[proc[p].mediaId].balance]
    /\ UNCHANGED <<now, db, rowlock, exitDone>>

\* Card: SELECT get_current_fare(...), then the controller's balance check.
exitCardFare(p) ==
    /\ proc[p].pc = "exit_card_fare"
    /\ LET me == proc[p]
           fare == get_current_fare(journey[me.journeyId].entrystationid,
                                    me.stationId, CurrentDate(now))
       IN  proc' = IF me.currentBalance < fare
                   THEN Respond(p, Failure("InsufficientFunds"))
                   ELSE [proc EXCEPT ![p].pc = "complete_select",
                                     ![p].actualFare = fare]
    /\ UNCHANGED <<now, db, rowlock, exitDone>>

\* complete_journey, first statement: SELECT * FROM Journey and the status check.
complete_journey_select(p) ==
    /\ proc[p].pc = "complete_select"
    /\ proc' = IF journey[proc[p].journeyId].status # "Active"
               THEN Respond(p, Failure("JourneyNotActive"))
               ELSE [proc EXCEPT ![p].pc = "complete_update", ![p].txnTime = now]
    /\ UNCHANGED <<now, db, rowlock, exitDone>>

\* Variant: ExitTime = CURRENT_TIMESTAMP, without the added second.
CompletedRow_no_interval(old, st, t) ==
    [old EXCEPT !.exitstationid = st, !.exittime = t, !.status = "Completed"]

\* The row image the UPDATE of complete_journey produces from the latest
\* committed version of the row.
CompletedRow(old, st, t) ==
    [old EXCEPT !.exitstationid = st, !.exittime = t + OneSecond,
                !.status = "Completed"]

\* Variant: the trigger guard without the test of the OLD row's status.
FareTriggerApplies_no_old_status(old, new) ==
    /\ new.status = "Completed"
    /\ new.exitstationid # NULL
    /\ new.cardid # NULL

\* complete_journey_fare, the guard of the BEFORE UPDATE trigger.
FareTriggerApplies(old, new) ==
    /\ new.status = "Completed"
    /\ old.status # "Completed"
    /\ new.exitstationid # NULL
    /\ new.cardid # NULL

\* chk_journey_time_sequence and chk_journey_fare_positive
chk_journey(row) ==
    /\ (row.exittime = NULL \/ row.exittime > row.entrytime)
    /\ (row.farededucted = NULL \/ row.farededucted > 0)

\* What the card handler answers after complete_journey returned a row;
\* parseFloat(null) is NaN, written NULL here.
ExitSuccess(me, row) ==
    emitJourneyExit(
        IF me.mediaType = "Ticket"
        THEN [NoResult EXCEPT !.ok = TRUE, !.kind = "ok", !.journeyId = me.journeyId,
                              !.fareCharged = me.paidFare, !.warning = me.warning]
        ELSE [NoResult EXCEPT !.ok = TRUE, !.kind = "ok", !.journeyId = me.journeyId,
                              !.fareCharged = row.farededucted,
                              !.previousBalance = me.currentBalance,
                              !.newBalance = IF row.farededucted = NULL THEN NULL
                                             ELSE me.currentBalance - row.farededucted],
        me.journeyId,
        IF me.mediaType = "Ticket" THEN me.actualFare ELSE row.farededucted)

\* complete_journey, the UPDATE: it waits for the row lock, then the BEFORE
\* UPDATE trigger sees the latest row version as OLD.  When the trigger has to
\* debit, it reads the balance here and the debit follows as the next
\* statement (RAISE EXCEPTION 'Insufficient balance ...' when the balance read
\* is below the fare); otherwise the UPDATE is applied and the transaction
\* commits.
complete_journey_update(p) ==
    /\ proc[p].pc = "complete_update"
    /\ proc[p].journeyId \notin rowlock
    /\ LET me == proc[p]
           jid == me.journeyId
           old == journey[jid]
           new == CompletedRow(old, me.stationId, me.txnTime)
           v_fare == get_current_fare(new.entrystationid, new.exitstationid,
                                      CurrentDate(me.txnTime))
       IN  IF FareTriggerApplies(old, new) /\ v_fare > 0
           THEN IF smartcard[new.cardid].balance >= v_fare
                THEN /\ proc' = [proc EXCEPT ![p].pc = "complete_debit",
                                             ![p].v_fare = v_fare]
                     /\ rowlock' = rowlock \cup {jid}
                     /\ UNCHANGED <<db, exitDone>>
                ELSE /\ proc' = Respond(p, Failure("InsufficientFunds"))
                     /\ UNCHANGED <<db, rowlock, exitDone>>
           ELSE IF chk_journey(new)
                THEN /\ journey' = [journey EXCEPT ![jid] = new]
                     /\ logs' = Append(logs, log_update("journey", jid, old, new))
                     /\ proc' = Respond(p, ExitSuccess(me, new))
                     /\ exitDone' = exitDone \cup {<<me.mediaType, me.mediaId>>}
                     /\ UNCHANGED <<smartcard, ticket, booking, transaction, payment,
                                    recharge, rowlock>>
                ELSE /\ proc' = Respond(p, Failure("InternalError"))
                     /\ UNCHANGED <<db, rowlock, exitDone>>
    /\ UNCHANGED now

\* The balance the trigger's UPDATE SmartCard SET Balance = Balance - v_fare
\* writes, computed from the latest committed balance.
DebitedBalance(balance, v_fare) == balance - v_fare

\* complete_journey_fare, UPDATE SmartCard: the row constraints decide whether
\* the transaction commits (card and journey written, one audit row each) or
\* is rolled back as a whole.
complete_journey_debit(p) ==
    /\ proc[p].pc = "complete_debit"
    /\ LET me == proc[p]
           jid == me.journeyId
           old == journey[jid]
           new == [CompletedRow(old, me.stationId, me.txnTime)
                       EXCEPT !.farededucted = me.v_fare]
           oldcard == smartcard[old.cardid]
           newcard == [oldcard EXCEPT
                          !.balance = DebitedBalance(oldcard.balance, me.v_fare)]
       IN  IF chk_smartcard_balance(newcard.balance) /\ chk_journey(new)
           THEN /\ smartcard' = [smartcard EXCEPT ![old.cardid] = newcard]
                /\ journey' = [journey EXCEPT ![jid] = new]
                /\ logs' = logs \o << log_update("smartcard", old.cardid, oldcard, newcard),
                                      log_update("journey", jid, old, new) >>
                /\ proc' = Respond(p, ExitSuccess(me, new))
                /\ exitDone' = exitDone \cup {<<me.mediaType, me.mediaId>>}
                /\ UNCHANGED <<ticket, booking, transaction, payment, recharge>>
           ELSE /\ proc' = Respond(p, Failure("InternalError"))
                /\ UNCHANGED <<db, exitDone>>
    /\ rowlock' = rowlock \ {proc[p].journeyId}
    /\ UNCHANGED now

\* ------------------------------------------------------------ rechargeCard
\* Variant: the amount is not validated.
ValidAmount_any(a) == TRUE

\* validators.rechargeCard: isFloat({ min: 10, max: 10000 })
ValidAmount(a) == a >= RechargeMin /\ a <= RechargeMax

\* validators.rechargeCard, then the handler's SELECT of the user's active card.
rechargeCardBegin(p, amounts) ==
    /\ proc[p].pc = "idle"
    /\ Len(recharge) + InFlight("recharge") < MaxRecharges
    /\ \E u \in Users, a \in amounts :
         LET me == [IdleProc EXCEPT !.op = "recharge", !.userId = u, !.amount = a]
             cards == {c \in DOMAIN smartcard :
                          smartcard[c].userid = u /\ smartcard[c].isactive}
         IN  IF ~ValidAmount(a)
             THEN proc' = [proc EXCEPT ![p] =
                      Answer(me, Failure("ValidationError"))]
             ELSE IF cards = {}
             THEN proc' = [proc EXCEPT ![p] =
                      Answer(me, Failure("CardNotFound"))]
             ELSE \E c \in cards :
                    proc' = [proc EXCEPT ![p] =
                        [me EXCEPT !.pc = "recharge_call", !.cardId = c,
                                   !.mediaType = "Card", !.mediaId = c,
                                   !.currentBalance = smartcard[c].balance]]
    /\ UNCHANGED <<now, db, rowlock, exitDone>>

\* Variant: the trigger credits the amount twice.
CreditedBalance_twice(balance, amount) == balance + amount + amount

\* process_card_recharge: AFTER INSERT ON Recharge,
\* UPDATE SmartCard SET Balance = Balance + amount.
CreditedBalance(balance, amount) == balance + amount

\* Variant: the audit rows of the call are put in front of the older ones.
recharge_smart_card_log_rewritten(p) ==
    /\ proc[p].pc = "recharge_call"
    /\ LET me == proc[p]
           c == me.cardId
           tid == Len(transaction) + 1
           rid == Len(recharge) + 1
           pid == Len(payment) + 1
           trow == [userid |-> me.userId, amount |-> me.amount,
                    transactiontype |-> "Recharge"]
           rrow == [transactionid |-> tid, cardid |-> c]
           prow == [transactionid |-> tid, status |-> "Success"]
           oldcard == smartcard[c]
           newcard == [oldcard EXCEPT
                          !.balance = CreditedBalance(oldcard.balance, me.amount),
                          !.lastusedat = now]
       IN  IF /\ me.amount > 0
              /\ (oldcard.userid = me.userId \/ oldcard.userid = NULL)
              /\ chk_smartcard_balance(newcard.balance)
           THEN /\ transaction' = Append(transaction, trow)
                /\ recharge' = Append(recharge, rrow)
                /\ payment' = Append(payment, prow)
                /\ smartcard' = [smartcard EXCEPT ![c] = newcard]
                /\ logs' = << log_insert("transaction", tid, trow),
                              log_insert("recharge", rid, rrow),
                              log_update("smartcard", c, oldcard, newcard),
                              log_insert("payment", pid, prow) >> \o logs
                /\ proc' = Respond(p, [NoResult EXCEPT !.ok = TRUE, !.kind = "ok",
                                          !.previousBalance = me.currentBalance,
                                          !.newBalance = newcard.balance])
                /\ UNCHANGED <<ticket, booking, journey>>
           ELSE /\ proc' = Respond(p, Failure("InternalError"))
                /\ UNCHANGED db
    /\ UNCHANGED <<now, rowlock, exitDone>>

\* recharge_smart_card: Transaction, Recharge (whose trigger credits the card)
\* and Payment in one transaction.
recharge_smart_card(p) ==
    /\ proc[p].pc = "recharge_call"
    /\ LET me == proc[p]
           c == me.cardId
           tid == Len(transaction) + 1
           rid == Len(recharge) + 1
           pid == Len(payment) + 1
           trow == [userid |-> me.userId, amount |-> me.amount,
                    transactiontype |-> "Recharge"]
           rrow == [transactionid |-> tid, cardid |-> c]
           prow == [transactionid |-> tid, status |-> "Success"]
           oldcard == smartcard[c]
           newcard == [oldcard EXCEPT
                          !.balance = CreditedBalance(oldcard.balance, me.amount),
                          !.lastusedat = now]
       IN  IF /\ me.amount > 0
              /\ (oldcard.userid = me.userId \/ oldcard.userid = NULL)
              /\ chk_smartcard_balance(newcard.balance)
           THEN /\ transaction' = Append(transaction, trow)
                /\ recharge' = Append(recharge, rrow)
                /\ payment' = Append(payment, prow)
                /\ smartcard' = [smartcard EXCEPT ![c] = newcard]
                /\ logs' = logs \o << log_insert("transaction", tid, trow),
                                      log_insert("recharge", rid, rrow),
                                      log_update("smartcard", c, oldcard, newcard),
                                      log_insert("payment", pid, prow) >>
                /\ proc' = Respond(p, [NoResult EXCEPT !.ok = TRUE, !.kind = "ok",
                                          !.previousBalance = me.currentBalance,
                                          !.newBalance = newcard.balance])
                /\ UNCHANGED <<ticket, booking, journey>>
           ELSE /\ proc' = Respond(p, Failure("InternalError"))
                /\ UNCHANGED db
    /\ UNCHANGED <<now, rowlock, exitDone>>

\* Steps shared by the card and the ticket side of the gates.
GateStep(p) ==
    \/ Return(p)
    \/ entryValidateMedia(p)
    \/ entryCheckExisting(p)
    \/ start_journey_validate(p)
    \/ start_journey_insert(p)
    \/ exitFindJourney(p)
    \/ complete_journey_select(p)
    \/ complete_journey_update(p)

\* Gate calls with a smart card.
CardStep(p, stations) ==
    \/ GateStep(p)
    \/ journeyEntryBegin(p, "Card", EntryStations)
    \/ journeyExitBegin(p, "Card", stations, {"number"})
    \/ exitCardBalance(p)
    \/ exitCardFare(p)
    \/ complete_journey_debit(p)

\* Smart cards at the gates.
NextCard == \E p \in Procs : CardStep(p, ExitStations)

SpecCard == Init /\ [][NextCard]_vars

\* Smart cards at the gates while the card is being recharged.
NextRecharge ==
    \/ \E p \in Procs : CardStep(p, TerminusStations)
    \/ \E p \in Procs : rechargeCardBegin(p, RechargeAmounts)
    \/ \E p \in Procs : recharge_smart_card(p)

SpecRecharge == Init /\ [][NextRecharge]_vars

\* Tickets: bookings and gate calls with a ticket.
TicketStep(p, stations, types) ==
    \/ GateStep(p)
    \/ bookTicket(p, BookSources \X BookDestinations, types, MaxTickets)
    \/ journeyEntryBegin(p, "Ticket", EntryStations)
    \/ journeyExitBegin(p, "Ticket", stations, types)
    \/ exitTicketFare(p)

NextTicket == \E p \in Procs : TicketStep(p, ExitStations, {"number"})

SpecTicket == Init /\ [][NextTicket]_vars

\* Tickets, with the exit gate's stationId sent as a JSON number or as a JSON
\* string of digits: validators.journeyExit admits both and converts neither.
JsonTypes == {"number", "string"}

NextTicketJson == \E p \in Procs : TicketStep(p, ExitStations, JsonTypes)

SpecTicketJson == Init /\ [][NextTicketJson]_vars

\* Card gates and recharges next to the requests that are refused: amounts on
\* and just outside the limits of the validator, bookings whose destination
\* is their source.
BoundaryAmounts == {RechargeMin - 1, RechargeMin, RechargeMax, RechargeMax + 1}

SameStationRoutes == {<<s, s>> : s \in BookSources}

NextRefusals ==
    \/ \E p \in Procs : CardStep(p, TerminusStations)
    \/ \E p \in Procs : rechargeCardBegin(p, BoundaryAmounts)
    \/ \E p \in Procs : recharge_smart_card(p)
    \/ \E p \in Procs : bookTicket(p, SameStationRoutes, {"number"}, MaxTickets)

SpecRefusals == Init /\ [][NextRefusals]_vars

\* SELECT get_current_fare($1, $2) as fare, as the handlers issue it: the
\* function is evaluated on the day of the call and its value returned.
FareQueryStations == {1, 2, 3, 4}

selectCurrentFare(p) ==
    /\ proc[p].pc = "idle"
    /\ \E src \in FareQueryStations, dst \in FareQueryStations :
         proc' = [proc EXCEPT ![p] =
                    [IdleProc EXCEPT !.pc = "done", !.op = "fare",
                                     !.stationId = src, !.destinationstationid = dst,
                                     !.result = [NoResult EXCEPT !.ok = TRUE, !.kind = "ok",
                                         !.fareCharged =
                                             get_current_fare(src, dst, CurrentDate(now))]]]
    /\ UNCHANGED <<now, db, rowlock, exitDone>>

NextFare ==
    \/ Tick
    \/ \E p \in Procs : Return(p)
    \/ \E p \in Procs : selectCurrentFare(p)

SpecFare == Init /\ [][NextFare]_vars

\* The booking counter alone, with a running clock: every ordered pair of the
\* stations that have fares, the pairs without a fare row among them.
MaxBookings == 2

BookingRoutes == {1, 2, 3} \X {1, 2, 3}

NextBooking ==
    \/ Tick
    \/ \E p \in Procs : Return(p)
    \/ \E p \in Procs : bookTicket(p, BookingRoutes, {"number"}, MaxBookings)

SpecBooking == Init /\ [][NextBooking]_vars

\* Card gates that are also asked for a station that is closed (4) and for
\* one that is not in the Station table (5).
OtherStations == {4, 5}

NextStations ==
    \/ \E p \in Procs : GateStep(p)
    \/ \E p \in Procs : journeyEntryBegin(p, "Card", EntryStations \cup OtherStations)
    \/ \E p \in Procs : journeyExitBegin(p, "Card", TerminusStations \cup OtherStations,
                                           {"number"})
    \/ \E p \in Procs : exitCardBalance(p)
    \/ \E p \in Procs : exitCardFare(p)
    \/ \E p \in Procs : complete_journey_debit(p)

SpecStations == Init /\ [][NextStations]_vars

\* Every operation that writes an audit row: the booking counter, the gates
\* (with the ticket bought) and recharges of the card.
NextAudit ==
    \/ \E p \in Procs : GateStep(p)
    \/ \E p \in Procs : bookTicket(p, BookSources \X TerminusStations, {"number"},
                                     MaxTickets)
    \/ \E p \in Procs : journeyEntryBegin(p, "Ticket", EntryStations)
    \/ \E p \in Procs : journeyExitBegin(p, "Ticket", TerminusStations, {"number"})
    \/ \E p \in Procs : exitTicketFare(p)
    \/ \E p \in Procs : rechargeCardBegin(p, {RechargeMin})
    \/ \E p \in Procs : recharge_smart_card(p)

SpecAudit == Init /\ [][NextAudit]_vars

\* Gates whose exits include the station of entry, a pair without a Fare row
\* (chk_fare_different_stations), next to a station with a fare.
NoFareExitStations == EntryStations \cup {3}

NextNoFare ==
    \/ \E p \in Procs : CardStep(p, NoFareExitStations)
    \/ \E p \in Procs : TicketStep(p, EntryStations, {"number"})

SpecNoFare == Init /\ [][NextNoFare]_vars

\* Gates used with both kinds of media: entries with the card, entries and
\* exits with the ticket bought at the counter for the route from the station
\* of entry to the terminus.
NextMedia ==
    \/ \E p \in Procs : GateStep(p)
    \/ \E p \in Procs : bookTicket(p, BookSources \X TerminusStations, {"number"},
                                     MaxTickets)
    \/ \E p \in Procs, mt \in {"Ticket", "Card"} :
          journeyEntryBegin(p, mt, EntryStations)
    \/ \E p \in Procs : journeyExitBegin(p, "Ticket", TerminusStations, {"number"})
    \/ \E p \in Procs : exitTicketFare(p)

SpecMedia == Init /\ [][NextMedia]_vars

\* Card gates at the terminus with a running clock: entries and exits at the
\* same instant and at different ones.
NextCardClock ==
    \/ Tick
    \/ \E p \in Procs : CardStep(p, TerminusStations)

SpecCardClock == Init /\ [][NextCardClock]_vars

\* The booking counter and entries with the ticket, with a running clock that
\* passes the end of the ticket's validity.
NextValidity ==
    \/ Tick
    \/ \E p \in Procs : Return(p)
    \/ \E p \in Procs : bookTicket(p, BookSources \X TerminusStations, {"number"},
                                     MaxTickets)
    \/ \E p \in Procs : journeyEntryBegin(p, "Ticket", EntryStations)
    \/ \E p \in Procs : entryValidateMedia(p)
    \/ \E p \in Procs : entryCheckExisting(p)
    \/ \E p \in Procs : start_journey_validate(p)
    \/ \E p \in Procs : start_journey_insert(p)

SpecValidity == Init /\ [][NextValidity]_vars

\* UPDATE SmartCard SET IsActive = FALSE: no handler issues it, it is the
\* operator's statement on the column the handlers read; the audit trigger of
\* SmartCard logs it like any other update.
deactivate_card(c) ==
    /\ smartcard[c].isactive
    /\ LET old == smartcard[c]
           new == [old EXCEPT !.isactive = FALSE]
       IN  /\ smartcard' = [smartcard EXCEPT ![c] = new]
           /\ logs' = Append(logs, log_update("smartcard", c, old, new))
    /\ UNCHANGED <<now, journey, ticket, booking, transaction, payment, recharge,
                   rowlock, proc, exitDone>>

\* Card gates at the terminus with a card that may be deactivated at any time.
NextInactive ==
    \/ \E p \in Procs : CardStep(p, TerminusStations)
    \/ \E c \in DOMAIN smartcard : deactivate_card(c)

SpecInactive == Init /\ [][NextInactive]_vars

\* The booking counter and entries with the ticket at its source station and
\* at the other stations, the stationId sent as a JSON number or string.
TicketEntryStations == {1, 2, 3}

NextEntryStation ==
    \/ \E p \in Procs : Return(p)
    \/ \E p \in Procs : bookTicket(p, BookSources \X TerminusStations, {"number"},
                                     MaxTickets)
    \/ \E p \in Procs : journeyEntryRequest(p, "Ticket", TicketEntryStations, JsonTypes)
    \/ \E p \in Procs : entryValidateMedia(p)
    \/ \E p \in Procs : entryCheckExisting(p)
    \/ \E p \in Procs : start_journey_validate(p)
    \/ \E p \in Procs : start_journey_insert(p)

SpecEntryStation == Init /\ [][NextEntryStation]_vars

\* Every kind of call side by side: one client at the gates with the card,
\* the other at the counter (booking, recharge) and at the gates with the
\* ticket.
CardClients == {1}

CounterClients == {2}

NextFrame ==
    \/ \E p \in Procs : GateStep(p)
    \/ \E p \in CardClients : journeyEntryBegin(p, "Card", EntryStations)
    \/ \E p \in CardClients : journeyExitBegin(p, "Card", TerminusStations, {"number"})
    \/ \E p \in Procs : exitCardBalance(p)
    \/ \E p \in Procs : exitCardFare(p)
    \/ \E p \in Procs : complete_journey_debit(p)
    \/ \E p \in CounterClients : bookTicket(p, BookSources \X TerminusStations,
                                              {"number"}, MaxTickets)
    \/ \E p \in CounterClients : journeyEntryBegin(p, "Ticket", EntryStations)
    \/ \E p \in CounterClients : journeyExitBegin(p, "Ticket", TerminusStations,
                                                   {"number"})
    \/ \E p \in Procs : exitTicketFare(p)
    \/ \E p \in CounterClients : rechargeCardBegin(p, {RechargeMin})
    \/ \E p \in Procs : recharge_smart_card(p)

SpecFrame == Init /\ [][NextFrame]_vars

\* ------------------------------------------------------------ registerCard
MaxRegistrations == 2   \* SmartCard rows that may be inserted

RegistrationFee == 5000     \* const registrationFee = 50.00

\* The users that ask for a card: user 1 holds card 1, user 2 holds none.
RegisteringUsers == {1, 2}

ActiveCardsOf(u) ==
    {c \in DOMAIN smartcard : smartcard[c].userid = u /\ smartcard[c].isactive}

\* SELECT cardid FROM smartcard WHERE userid = $1 AND isactive = true, and the
\* 400 'You already have an active smart card'.
registerCardBegin(p) ==
    /\ proc[p].pc = "idle"
    /\ Cardinality(DOMAIN smartcard) - Cardinality(DOMAIN InitialCards)
          + InFlight("register") < MaxRegistrations
    /\ \E u \in RegisteringUsers :
         LET me == [IdleProc EXCEPT !.op = "register", !.userId = u]
         IN  proc' = [proc EXCEPT ![p] =
                 IF ActiveCardsOf(u) # {}
                 THEN Refuse(me, Failure("CardAlreadyActive"))
                 ELSE [me EXCEPT !.pc = "register_transaction"]]
    /\ UNCHANGED <<now, db, rowlock, exitDone>>

\* INSERT INTO transaction (userid, amount, transactiontype), autocommit.
registerCardTransaction(p) ==
    /\ proc[p].pc = "register_transaction"
    /\ LET tid == Len(transaction) + 1
           trow == [userid |-> proc[p].userId, amount |-> RegistrationFee,
                    transactiontype |-> "Recharge"]
       IN  /\ transaction' = Append(transaction, trow)
           /\ logs' = Append(logs, log_insert("transaction", tid, trow))
           /\ proc' = [proc EXCEPT ![p].pc = "register_payment",
                                   ![p].transactionId = tid]
    /\ UNCHANGED <<now, smartcard, ticket, booking, payment, recharge, journey,
                   rowlock, exitDone>>

\* INSERT INTO payment (transactionid, paymentmethod, status), autocommit.
registerCardPayment(p) ==
    /\ proc[p].pc = "register_payment"
    /\ LET pid == Len(payment) + 1
           prow == [transactionid |-> proc[p].transactionId, status |-> "Success"]
       IN  /\ payment' = Append(payment, prow)
           /\ logs' = Append(logs, log_insert("payment", pid, prow))
           /\ proc' = [proc EXCEPT ![p].pc = "register_card"]
    /\ UNCHANGED <<now, smartcard, ticket, booking, transaction, recharge, journey,
                   rowlock, exitDone>>

\* INSERT INTO smartcard (userid, balance, isactive) VALUES ($1, 0.00, true),
\* autocommit, then the 201 response.
registerCardInsert(p) ==
    /\ proc[p].pc = "register_card"
    /\ LET cid == Cardinality(DOMAIN smartcard) + 1
           crow == [userid |-> proc[p].userId, balance |-> 0, isactive |-> TRUE,
                    lastusedat |-> NULL]
       IN  /\ smartcard' = [c \in DOMAIN smartcard \cup {cid} |->
                               IF c = cid THEN crow ELSE smartcard[c]]
           /\ logs' = Append(logs, log_insert("smartcard", cid, crow))
           /\ proc' = Respond(p, [NoResult EXCEPT !.ok = TRUE, !.kind = "ok"])
    /\ UNCHANGED <<now, ticket, booking, transaction, payment, recharge, journey,
                   rowlock, exitDone>>

NextRegister ==
    \/ \E p \in Procs : Return(p)
    \/ \E p \in Procs : registerCardBegin(p)
    \/ \E p \in Procs : registerCardTransaction(p)
    \/ \E p \in Procs : registerCardPayment(p)
    \/ \E p \in Procs : registerCardInsert(p)

SpecRegister == Init /\ [][NextRegister]_vars

\* Both kinds of media together.
Next == NextCard \/ NextRecharge \/ NextTicket

Spec == Init /\ [][Next]_vars

\* The same system with a running clock.
NextClock == Tick \/ Next

SpecClock == Init /\ [][NextClock]_vars

\* Card gates started from a card whose balance sits on one of the limits the
\* handlers compare against (the entry floor, the fares of the Fare table).
BoundaryBalances == {500, 1000, 2999, 3000}

InitBoundary ==
    /\ now = 0
    /\ \E b \in BoundaryBalances :
          smartcard = [InitialCards EXCEPT ![1].balance = b]
    /\ ticket = <<>>
    /\ booking = <<>>
    /\ transaction = <<>>
    /\ payment = <<>>
    /\ recharge = <<>>
    /\ journey = <<>>
    /\ logs = <<>>
    /\ rowlock = {}
    /\ proc = [p \in Procs |-> IdleProc]
    /\ exitDone = {}

SpecBoundary == InitBoundary /\ [][NextCard]_vars

\* The passenger who is denied at the exit gate for lack of funds recharges
\* at the counter and presents the card again: one client at the gates, the
\* other at the counter, the card starting from one of the boundary balances.
ExitDenied ==
    \E q \in CardClients :
        /\ proc[q].pc = "done"
        /\ proc[q].op = "exit"
        /\ proc[q].result.kind = "InsufficientFunds"

rechargeAfterDenial(p) == ExitDenied /\ rechargeCardBegin(p, RechargeAmounts)

\* The steps of a handler that has begun: each awaits a query the database
\* answers, so a handler that can continue does.
HandlerStep(p) ==
    \/ entryValidateMedia(p)
    \/ entryCheckExisting(p)
    \/ start_journey_validate(p)
    \/ start_journey_insert(p)
    \/ exitFindJourney(p)
    \/ exitCardBalance(p)
    \/ exitCardFare(p)
    \/ complete_journey_select(p)
    \/ complete_journey_update(p)
    \/ complete_journey_debit(p)
    \/ recharge_smart_card(p)

NextRetry ==
    \/ \E p \in Procs : Return(p)
    \/ \E p \in Procs : HandlerStep(p)
    \/ \E p \in CardClients : journeyEntryBegin(p, "Card", EntryStations)
    \/ \E p \in CardClients : journeyExitBegin(p, "Card", TerminusStations, {"number"})
    \/ \E p \in CounterClients : rechargeAfterDenial(p)

SpecRetry ==
    /\ InitBoundary
    /\ [][NextRetry]_vars
    /\ \A p \in Procs : WF_vars(HandlerStep(p))

\* ======================================================================
\* Properties
\* ======================================================================
Media == {"Ticket", "Card"} \X MediaIds

RECURSIVE SumOver(_, _)
SumOver(S, f) ==
    IF S = {} THEN 0
    ELSE LET x == CHOOSE y \in S : TRUE IN f[x] + SumOver(S \ {x}, f)

JourneysOfCard(c) == {j \in DOMAIN journey : journey[j].cardid = c}
JourneysOfTicket(t) == {j \in DOMAIN journey : journey[j].ticketid = t}

\* Sum of the amounts of the committed recharges of card c.
RechargeTotal(c) ==
    SumOver({i \in DOMAIN recharge : recharge[i].cardid = c},
            [i \in DOMAIN recharge |-> transaction[recharge[i].transactionid].amount])

\* Sum of fareDeducted over the Completed journeys of card c.
FareTotal(c) ==
    SumOver({j \in JourneysOfCard(c) : /\ journey[j].status = "Completed"
                                       /\ journey[j].farededucted # NULL},
            [j \in DOMAIN journey |-> journey[j].farededucted])

\* Audit rows of SmartCard updates of card c that lowered the balance.
DebitLogs(c) ==
    {i \in DOMAIN logs : /\ logs[i].tbl = "smartcard" /\ logs[i].op = "UPDATE"
                         /\ logs[i].id = c
                         /\ logs[i].new[1].balance < logs[i].old[1].balance}

\* Audit rows of updates of journey j.
JourneyUpdateLogs(j) ==
    {i \in DOMAIN logs : /\ logs[i].tbl = "journey" /\ logs[i].op = "UPDATE"
                         /\ logs[i].id = j}

ExitSucceeded(p) ==
    proc[p].pc = "done" /\ proc[p].op = "exit" /\ proc[p].result.ok

\* C1: every ticket and every card has at most one Journey with status
\* Active, also while entry calls for the same media run concurrently.
C1_OneActiveJourneyPerMedia ==
    \A m \in Media : Cardinality(ActiveJourneys(m[1], m[2])) <= 1

\* C2: every smart card's balance is at least 0.00 and at most 10000.00 in
\* every reachable state.
C2_BalanceInRange ==
    \A c \in DOMAIN smartcard :
        smartcard[c].balance >= 0 /\ smartcard[c].balance <= BalanceLimit

\* A card that was recharged and debited down to exactly 0.00.
C2_Witness ==
    /\ smartcard[1].balance = 0
    /\ Len(recharge) = 1
    /\ \E j \in JourneysOfCard(1) : journey[j].farededucted # NULL

\* C3: no double charge and no lost update: each card's balance is its
\* initial balance plus its recharges minus the fareDeducted of its Completed
\* journeys, and every debit of the card belongs to one journey of its own.
C3_BalanceAccounting ==
    \A c \in DOMAIN smartcard :
        /\ smartcard[c].balance =
               InitialCards[c].balance + RechargeTotal(c) - FareTotal(c)
        /\ Cardinality(DebitLogs(c)) =
               Cardinality({j \in JourneysOfCard(c) : journey[j].farededucted # NULL})

\* A recharge was committed and two exit calls both updated the same journey.
C3_Witness ==
    /\ Len(recharge) = 1
    /\ \E j \in JourneysOfCard(1) :
          /\ journey[j].farededucted # NULL
          /\ Cardinality(JourneyUpdateLogs(j)) = 2

\* C4: a Completed card journey carries as fareDeducted the current fare of
\* its recorded entry and exit stations as of its completion, and the card
\* was debited by exactly that amount.
C4_FareDeductedIsCurrentFare ==
    \A j \in DOMAIN journey :
        (journey[j].status = "Completed" /\ journey[j].cardid # NULL) =>
            LET fare == get_current_fare(journey[j].entrystationid,
                                         journey[j].exitstationid,
                                         CurrentDate(journey[j].exittime - OneSecond))
            IN  /\ (IF journey[j].farededucted = NULL THEN 0
                    ELSE journey[j].farededucted) = fare
                /\ fare > 0 =>
                     \E i \in DebitLogs(journey[j].cardid) :
                        logs[i].old[1].balance - logs[i].new[1].balance = fare

\* C5: two exit calls that ran concurrently on one card and passed the funds
\* check against the same balance do not both succeed unless that balance
\* covers both fares.
C5_ConcurrentExitsNotBothSucceed ==
    \A p \in Procs : \A q \in Procs \ {p} :
        ( /\ ExitSucceeded(p) /\ ExitSucceeded(q)
          /\ proc[p].mediaType = "Card" /\ proc[q].mediaType = "Card"
          /\ proc[p].mediaId = proc[q].mediaId
          /\ proc[p].conc /\ proc[q].conc
          /\ proc[p].fare # NULL /\ proc[q].fare # NULL
          /\ proc[p].result.previousBalance = proc[q].result.previousBalance )
        => proc[p].result.previousBalance >= proc[p].fare + proc[q].fare

C7_CompletedJourneyImmutable ==
    [][ \A j \in DOMAIN journey :
            journey[j].status = "Completed" => journey'[j] = journey[j] ]_vars

\* C8: a ticket is used exactly when a Journey row references it; isUsed is
\* never reset, and it is set only in the step that inserts a journey of that
\* ticket, with usedAt equal to the journey's entry time.
C8_TicketUsedOnce ==
    /\ [](\A t \in DOMAIN ticket : ticket[t].isused <=> JourneysOfTicket(t) # {})
    /\ [][ \A t \in DOMAIN ticket :
              /\ ticket[t].isused => ticket'[t] = ticket[t]
              /\ (~ticket[t].isused /\ ticket'[t].isused) =>
                    /\ Len(journey') = Len(journey) + 1
                    /\ journey'[Len(journey')].ticketid = t
                    /\ journey'[Len(journey')].status = "Active"
                    /\ ticket'[t].usedat = journey'[Len(journey')].entrytime ]_vars

\* A used ticket for which a second journey was inserted while it was used.
C8_Witness ==
    \E t \in DOMAIN ticket :
        ticket[t].isused /\ Cardinality(JourneysOfTicket(t)) = 2

\* C9: a ticket is the media of at most one journey over the whole run.
C9_TicketHasOneJourney ==
    \A t \in DOMAIN ticket : Cardinality(JourneysOfTicket(t)) <= 1

\* C10: an exit call that starts after an exit of the same media succeeded,
\* with no entry of that media since, changes no table and is answered with
\* NoActiveJourney or JourneyNotActive.
C10_SecondExitFails ==
    [][ \A p \in Procs :
            ( /\ proc[p].op = "exit" /\ proc[p].afterExit
              /\ proc'[p].pc # proc[p].pc )
            => /\ UNCHANGED db
               /\ proc'[p].pc = "done" =>
                     proc'[p].result.kind \in {"NoActiveJourney", "JourneyNotActive"}
      ]_vars

\* A step that answers a card exit call which had found a journey.
CardExitAnswered(p) ==
    /\ proc[p].op = "exit" /\ proc[p].mediaType = "Card"
    /\ proc[p].pc # "done" /\ proc'[p].pc = "done"
    /\ proc[p].journeyId # NULL

\* The fare of the route the exit call of p has travelled.
ExitFare(p) ==
    get_current_fare(journey[proc[p].journeyId].entrystationid, proc[p].stationId,
                     CurrentDate(now))

\* C11: a card exit on an Active journey whose fare exceeds the card's
\* balance is answered with InsufficientFunds; the journey stays Active
\* without exit station, exit time or fareDeducted and no table changes.
C11_ExitDeniedWhenFareExceedsBalance ==
    [][ \A p \in Procs :
            ( /\ CardExitAnswered(p)
              /\ journey[proc[p].journeyId].status = "Active"
              /\ ExitFare(p) > smartcard[proc[p].mediaId].balance )
            => /\ proc'[p].result.kind = "InsufficientFunds"
               /\ UNCHANGED db
               /\ journey'[proc[p].journeyId].exitstationid = NULL
               /\ journey'[proc[p].journeyId].exittime = NULL
               /\ journey'[proc[p].journeyId].farededucted = NULL ]_vars

\* A step that answers a card exit call with success.
CardExitSucceeds(p) == CardExitAnswered(p) /\ proc'[p].result.ok

\* C12: the newBalance a successful card exit returns is the card's stored
\* balance right after the completion, also when a recharge of the card is
\* interleaved with the exit call.
C12_NewBalanceIsStoredBalance ==
    [][ \A p \in Procs :
            CardExitSucceeds(p) =>
                proc'[p].result.newBalance = smartcard'[proc[p].mediaId].balance ]_vars

\* A step that answers a card entry call at an existing operational station.
CardEntryAnswered(p) ==
    /\ proc[p].op = "entry" /\ proc[p].mediaType = "Card"
    /\ proc[p].pc # "done" /\ proc'[p].pc = "done"
    /\ proc[p].stationId \in DOMAIN Station
    /\ Station[proc[p].stationId].isoperational

\* Card c exists, is active, holds at least the entry floor and has no Active
\* journey.
EntryAdmissible(c) ==
    /\ c \in DOMAIN smartcard
    /\ smartcard[c].isactive
    /\ smartcard[c].balance >= MinEntryBalance
    /\ ActiveJourneys("Card", c) = {}

\* C13: a card entry at an existing operational station succeeds exactly when
\* the card exists, is active, has a balance of at least 10.00 and has no
\* Active journey; a successful entry creates one journey, a failed one none.
C13_CardEntryIff ==
    [][ \A p \in Procs :
            CardEntryAnswered(p) =>
                /\ proc'[p].result.ok <=> EntryAdmissible(proc[p].mediaId)
                /\ proc'[p].result.ok => Len(journey') = Len(journey) + 1
                /\ ~proc'[p].result.ok => UNCHANGED db ]_vars

\* C14: debit boundary.  A card exit on an Active journey whose fare equals
\* the card's balance succeeds and leaves the balance at exactly 0.00; one
\* whose fare is 0.01 above the balance is answered with InsufficientFunds and
\* changes nothing.
C14_DebitBoundary ==
    [][ \A p \in Procs :
            ( CardExitAnswered(p) /\ journey[proc[p].journeyId].status = "Active" )
            => LET balance == smartcard[proc[p].mediaId].balance
               IN  /\ ExitFare(p) = balance =>
                        /\ proc'[p].result.ok
                        /\ smartcard'[proc[p].mediaId].balance = 0
                   /\ ExitFare(p) = balance + 1 =>
                        /\ proc'[p].result.kind = "InsufficientFunds"
                        /\ UNCHANGED db ]_vars

TicketExitAnswered(p) ==
    /\ proc[p].op = "exit" /\ proc[p].mediaType = "Ticket"
    /\ proc[p].pc # "done" /\ proc'[p].pc = "done"
    /\ proc[p].journeyId # NULL

PaidFare(t) == booking[ticket[t].bookingid].totalfare

\* C15: a ticket exit on an Active journey whose current fare from the entry
\* station to the exit station is greater than the fare paid at booking is
\* answered with FareShortfall and performs no transition: the journey stays
\* Active and no table, the audit log included, changes.
C15_FareShortfallNoTransition ==
    [][ \A p \in Procs :
            ( /\ TicketExitAnswered(p)
              /\ journey[proc[p].journeyId].status = "Active"
              /\ ExitFare(p) > PaidFare(proc[p].mediaId) )
            => /\ proc'[p].result.kind = "FareShortfall"
               /\ UNCHANGED db
               /\ journey'[proc[p].journeyId].status = "Active" ]_vars

\* A ticket exit was refused for a fare shortfall and its journey is Active.
C15_Witness ==
    \E p \in Procs :
        /\ proc[p].pc = "done" /\ proc[p].op = "exit"
        /\ proc[p].result.kind = "FareShortfall"
        /\ ActiveJourneys("Ticket", proc[p].mediaId) # {}

\* C16: a ticket exit on an Active journey whose current fare does not exceed
\* the fare paid succeeds and completes the journey at whatever station it is
\* made; the answer carries the wrong-destination notice exactly when the exit
\* station differs from the destination the ticket was booked for.
C16_TicketExitPermitted ==
    [][ \A p \in Procs :
            ( /\ TicketExitAnswered(p)
              /\ journey[proc[p].journeyId].status = "Active"
              /\ ExitFare(p) <= PaidFare(proc[p].mediaId) )
            => /\ proc'[p].result.ok
               /\ journey'[proc[p].journeyId].status = "Completed"
               /\ journey'[proc[p].journeyId].exitstationid = proc[p].stationId
               /\ proc'[p].result.warning <=>
                     (proc[p].stationId #
                        booking[ticket[proc[p].mediaId].bookingid].destinationstationid) ]_vars

\* C17: no exit completes a journey for which get_current_fare answers zero
\* (no fare row in force for the pair, or exit at the station of entry).
C17_ZeroFareIsFailure ==
    [][ \A j \in DOMAIN journey :
            ( journey[j].status = "Active" /\ journey'[j].status = "Completed" )
            => get_current_fare(journey'[j].entrystationid, journey'[j].exitstationid,
                                CurrentDate(now)) > 0 ]_vars

CallFails(p) ==
    /\ proc[p].pc # "done" /\ proc'[p].pc = "done"
    /\ ~proc'[p].result.ok

CallSucceeds(p) ==
    /\ proc[p].pc # "done" /\ proc'[p].pc = "done"
    /\ proc'[p].result.ok

\* C18: a call (entry, exit, bookTicket, rechargeCard) that is answered with a
\* failure has written nothing: the step that answers it leaves every table
\* and the audit log as they are, and every step that does change a table or
\* the log is the step in which some call succeeds.
C18_FailureLeavesNoTrace ==
    [][ /\ \A p \in Procs : CallFails(p) => UNCHANGED db
        /\ db' # db => \E p \in Procs : CallSucceeds(p) ]_vars

RechargeSucceeds(p) == proc[p].op = "recharge" /\ CallSucceeds(p)

\* C19: a successful rechargeCard of amount a is one atomic unit.  The step
\* that answers it appends exactly one Transaction (type Recharge, amount a),
\* one Recharge row and one Payment row (status Success) that refer to it and
\* raises the card's balance by exactly a; no other step touches these three
\* tables, and in every state the three tables pair up row by row.
C19_RechargeAtomic ==
    /\ [](/\ \A t \in DOMAIN transaction :
                transaction[t].transactiontype = "Recharge" =>
                   /\ Cardinality({r \in DOMAIN recharge :
                                      recharge[r].transactionid = t}) = 1
                   /\ Cardinality({q \in DOMAIN payment :
                                      /\ payment[q].transactionid = t
                                      /\ payment[q].status = "Success"}) = 1
          /\ \A r \in DOMAIN recharge :
                /\ recharge[r].transactionid \in DOMAIN transaction
                /\ transaction[recharge[r].transactionid].transactiontype = "Recharge")
    /\ [][ /\ \A p \in Procs : RechargeSucceeds(p) =>
                /\ Len(transaction') = Len(transaction) + 1
                /\ transaction'[Len(transaction')].transactiontype = "Recharge"
                /\ transaction'[Len(transaction')].amount = proc[p].amount
                /\ Len(recharge') = Len(recharge) + 1
                /\ recharge'[Len(recharge')].transactionid = Len(transaction')
                /\ recharge'[Len(recharge')].cardid = proc[p].cardId
                /\ Len(payment') = Len(payment) + 1
                /\ payment'[Len(payment')].transactionid = Len(transaction')
                /\ payment'[Len(payment')].status = "Success"
                /\ smartcard'[proc[p].cardId].balance =
                      smartcard[proc[p].cardId].balance + proc[p].amount
           /\ recharge' # recharge => \E p \in Procs : RechargeSucceeds(p) ]_vars

\* A recharge succeeded on a card whose balance a journey had changed since
\* the handler read it.
C19_Witness ==
    \E p \in Procs :
        /\ proc[p].pc = "done" /\ proc[p].op = "recharge" /\ proc[p].result.ok
        /\ Len(recharge) = 1 /\ Len(payment) = 1
        /\ proc[p].result.previousBalance + transaction[1].amount
              # proc[p].result.newBalance

RechargeRequested(p) == proc[p].pc = "idle" /\ proc'[p].op = "recharge"

\* C20: a rechargeCard whose amount is below 10.00 or above 10000.00 is
\* answered with ValidationError before anything is written (balance and the
\* Transaction, Recharge and Payment tables unchanged); 10.00 and 10000.00
\* themselves are not refused by the validation.
C20_RechargeAmountValidated ==
    [][ \A p \in Procs : RechargeRequested(p) =>
            LET a == proc'[p].amount
            IN  /\ (a < 1000 \/ a > 1000000) =>
                      /\ proc'[p].pc = "done"
                      /\ proc'[p].result.kind = "ValidationError"
                      /\ UNCHANGED db
                /\ (a >= 1000 /\ a <= 1000000) =>
                      proc'[p].result.kind # "ValidationError" ]_vars

\* One recharge above the maximum was refused by the validation while one of
\* exactly the minimum went through.
C20_Witness ==
    \E p, q \in Procs :
        /\ proc[p].pc = "done" /\ proc[p].op = "recharge"
        /\ proc[p].amount = RechargeMax + 1
        /\ proc[p].result.kind = "ValidationError"
        /\ proc[q].pc = "done" /\ proc[q].op = "recharge"
        /\ proc[q].amount = RechargeMin /\ proc[q].result.ok
        /\ Len(recharge) = 1

RechargeCommits(p) ==
    /\ proc[p].op = "recharge" /\ proc[p].pc = "recharge_call"
    /\ proc'[p].pc = "done"

\* C21: a recharge whose credit would lift the stored balance above 10000.00
\* is answered with BalanceCeilingExceeded and leaves the balance, the
\* Transaction, Recharge and Payment tables and the audit log unchanged.
C21_CeilingExceeded ==
    [][ \A p \in Procs :
            ( /\ RechargeCommits(p)
              /\ smartcard[proc[p].cardId].balance + proc[p].amount > 1000000 )
            => /\ proc'[p].result.kind = "BalanceCeilingExceeded"
               /\ UNCHANGED db ]_vars

BookSucceeds(p) ==
    /\ proc[p].pc = "idle" /\ proc'[p].op = "book"
    /\ proc'[p].result.ok

\* C22: a successful bookTicket is one atomic unit.  The step that answers it
\* appends exactly one Transaction (type Booking), one Booking, one Payment
\* (status Success) and one unused Ticket that refer to each other, with
\* Transaction.amount = Booking.totalFare = the current fare of the route at
\* that time, validUntil > validFrom and a token no other ticket carries; in
\* every state each Booking transaction has exactly one Booking, one Payment
\* and one Ticket, and all tokens differ.
C22_BookingAtomic ==
    /\ [](/\ \A t \in DOMAIN transaction :
                transaction[t].transactiontype = "Booking" =>
                   /\ Cardinality({b \in DOMAIN booking :
                                      booking[b].transactionid = t}) = 1
                   /\ Cardinality({q \in DOMAIN payment :
                                      /\ payment[q].transactionid = t
                                      /\ payment[q].status = "Success"}) = 1
          /\ \A b \in DOMAIN booking :
                /\ transaction[booking[b].transactionid].transactiontype = "Booking"
                /\ transaction[booking[b].transactionid].amount = booking[b].totalfare
                /\ Cardinality({k \in DOMAIN ticket : ticket[k].bookingid = b}) = 1
          /\ \A k1, k2 \in DOMAIN ticket :
                ticket[k1].qrcodedata = ticket[k2].qrcodedata => k1 = k2
          /\ \A k \in DOMAIN ticket :
                /\ ticket[k].bookingid \in DOMAIN booking
                /\ ticket[k].validuntil > ticket[k].validfrom)
    /\ [][ \A p \in Procs : BookSucceeds(p) =>
                LET fare == get_current_fare(proc'[p].stationId,
                                             proc'[p].destinationstationid,
                                             CurrentDate(now))
                    t == Len(transaction')
                    b == Len(booking')
                    k == Len(ticket')
                IN  /\ fare > 0
                    /\ t = Len(transaction) + 1
                    /\ transaction'[t].transactiontype = "Booking"
                    /\ transaction'[t].amount = fare
                    /\ b = Len(booking) + 1
                    /\ booking'[b].transactionid = t
                    /\ booking'[b].sourcestationid = proc'[p].stationId
                    /\ booking'[b].destinationstationid = proc'[p].destinationstationid
                    /\ booking'[b].totalfare = fare
                    /\ Len(payment') = Len(payment) + 1
                    /\ payment'[Len(payment')].transactionid = t
                    /\ payment'[Len(payment')].status = "Success"
                    /\ k = Len(ticket) + 1
                    /\ proc'[p].mediaId = k
                    /\ ticket'[k].bookingid = b
                    /\ ~ticket'[k].isused
                    /\ ticket'[k].validuntil > ticket'[k].validfrom ]_vars

\* Two tickets for the same route, bought on different days at different
\* fares.
C22_Witness ==
    \E b1, b2 \in DOMAIN booking :
        /\ b1 # b2
        /\ booking[b1].sourcestationid = booking[b2].sourcestationid
        /\ booking[b1].destinationstationid = booking[b2].destinationstationid
        /\ booking[b1].totalfare # booking[b2].totalfare
        /\ Len(ticket) = 2 /\ Len(payment) = 2

BookRequested(p) == proc[p].pc = "idle" /\ proc'[p].op = "book"

NoBookingRowAdded ==
    UNCHANGED <<transaction, booking, payment, ticket>>

C24_NoFareRejected ==
    /\ [](\A b \in DOMAIN booking : booking[b].totalfare > 0)
    /\ [][ \A p \in Procs :
              ( /\ BookRequested(p)
                /\ proc'[p].stationId # proc'[p].destinationstationid
                /\ get_current_fare(proc'[p].stationId, proc'[p].destinationstationid,
                                    CurrentDate(now)) = 0 )
              => /\ proc'[p].result.kind = "NoFareDefined"
                 /\ NoBookingRowAdded ]_vars

\* A booking for a pair without a fare row was refused next to one that went
\* through.
C24_Witness ==
    \E p \in Procs :
        /\ proc[p].pc = "done" /\ proc[p].op = "book"
        /\ proc[p].stationId # proc[p].destinationstationid
        /\ proc[p].result.kind = "NoFareDefined"
        /\ Len(booking) = 1

FareQueried(p) == proc[p].pc = "idle" /\ proc'[p].op = "fare"

\* The Fare rows of an ordered pair that are in force on a day: effective
\* from that day or earlier, and without an end or ending later.
InForce(src, dst, today) ==
    {f \in Fare : /\ f.src = src /\ f.dst = dst
                  /\ f.from <= today
                  /\ (f.until = NULL \/ f.until > today)}

\* C25: currentFare(source, dest) is the amount of a row in force for that
\* ordered pair than which no row in force has a later effectiveFrom, it is
\* zero when no row is in force, and the call changes no state.
C25_CurrentFare ==
    [][ \A p \in Procs : FareQueried(p) =>
            LET rows == InForce(proc'[p].stationId, proc'[p].destinationstationid,
                                CurrentDate(now))
                fare == proc'[p].result.fareCharged
            IN  /\ rows = {} => fare = 0
                /\ rows # {} => \E f \in rows : /\ f.amount = fare
                                                /\ \A g \in rows : g.from <= f.from
                /\ UNCHANGED <<now, db>> ]_vars

\* On a day on which two rows of a pair are in force the newer one was
\* returned, and a pair without a row got zero.
C25_Witness ==
    \E p, q \in Procs :
        /\ proc[p].pc = "done" /\ proc[p].op = "fare"
        /\ Cardinality(InForce(proc[p].stationId, proc[p].destinationstationid,
                               CurrentDate(now))) = 2
        /\ proc[p].result.fareCharged = 4000
        /\ proc[q].pc = "done" /\ proc[q].op = "fare"
        /\ proc[q].result.fareCharged = 0

\* The audit rows a step appends.
NewLogs == SubSeq(logs', Len(logs) + 1, Len(logs'))

\* The appended audit rows that record a change of the balance of card c.
BalanceLogs(c) ==
    {i \in DOMAIN NewLogs :
        /\ NewLogs[i].tbl = "smartcard" /\ NewLogs[i].op = "UPDATE"
        /\ NewLogs[i].id = c
        /\ NewLogs[i].old[1].balance # NewLogs[i].new[1].balance}

\* C26: every change of a card's balance (credit by recharge, debit by card
\* exit) comes, in the same step, with exactly one appended audit row of that
\* card whose before and after images carry the balance before and after the
\* step, so they differ by the credited or debited amount; no audit row shows
\* a balance change that did not happen.
C26_BalanceChangeAudited ==
    [][ /\ \A c \in DOMAIN smartcard :
              /\ smartcard'[c].balance # smartcard[c].balance =>
                    /\ Cardinality(BalanceLogs(c)) = 1
                    /\ \A i \in BalanceLogs(c) :
                          /\ NewLogs[i].old[1].balance = smartcard[c].balance
                          /\ NewLogs[i].new[1].balance = smartcard'[c].balance
              /\ smartcard'[c].balance = smartcard[c].balance => BalanceLogs(c) = {}
        /\ \A p \in Procs :
              /\ RechargeSucceeds(p) =>
                    smartcard'[proc[p].cardId].balance =
                        smartcard[proc[p].cardId].balance + proc[p].amount
              /\ (CardExitSucceeds(p) /\ proc'[p].result.fareCharged # NULL
                    /\ smartcard'[proc[p].mediaId].balance
                          # smartcard[proc[p].mediaId].balance) =>
                    smartcard'[proc[p].mediaId].balance =
                        smartcard[proc[p].mediaId].balance - proc'[p].result.fareCharged
      ]_vars

\* The log holds one audit row of a credit and one of a debit of the card.
C26_Witness ==
    \E i, j \in DOMAIN logs :
        /\ logs[i].tbl = "smartcard" /\ logs[i].op = "UPDATE"
        /\ logs[j].tbl = "smartcard" /\ logs[j].op = "UPDATE"
        /\ logs[i].new[1].balance > logs[i].old[1].balance
        /\ logs[j].new[1].balance < logs[j].old[1].balance

GateAnswered(p) ==
    /\ proc[p].op \in {"entry", "exit"}
    /\ proc[p].pc # "done" /\ proc'[p].pc = "done"

\* C28: the answer of a successful entry carries exactly one JOURNEY_ENTRY
\* event and that of a successful exit exactly one JOURNEY_EXIT event, with
\* the id of the journey the call inserted or completed, and that row is in
\* the table, Active after the entry and Completed after the exit, when the
\* event leaves; a failed entry or exit emits nothing.
C28_JourneyEvents ==
    [][ \A p \in Procs : GateAnswered(p) =>
            LET r == proc'[p].result
            IN  /\ ~r.ok => r.event = "none"
                /\ (r.ok /\ proc[p].op = "entry") =>
                      /\ r.event = "JOURNEY_ENTRY"
                      /\ r.eventJourneyId = Len(journey')
                      /\ Len(journey') = Len(journey) + 1
                      /\ journey'[r.eventJourneyId].status = "Active"
                      /\ journey'[r.eventJourneyId].journeytype = proc[p].mediaType
                /\ (r.ok /\ proc[p].op = "exit") =>
                      /\ r.event = "JOURNEY_EXIT"
                      /\ r.eventJourneyId = proc[p].journeyId
                      /\ journey'[r.eventJourneyId].status = "Completed"
                      /\ journey'[r.eventJourneyId].exitstationid # NULL ]_vars

\* An entry and an exit have both been answered with their event.
C28_Witness ==
    \E p, q \in Procs :
        /\ proc[p].pc = "done" /\ proc[p].result.event = "JOURNEY_ENTRY"
        /\ proc[q].pc = "done" /\ proc[q].result.event = "JOURNEY_EXIT"
        /\ Len(journey) = 2

GateRequested(p) ==
    /\ proc[p].pc = "idle" /\ proc'[p].op \in {"entry", "exit"}

NothingWritten == UNCHANGED db

C30_OneMediaReference ==
    \A j \in DOMAIN journey :
        \/ /\ journey[j].journeytype = "Ticket"
           /\ journey[j].ticketid # NULL
           /\ journey[j].cardid = NULL
        \/ /\ journey[j].journeytype = "Card"
           /\ journey[j].cardid # NULL
           /\ journey[j].ticketid = NULL

C30_Witness ==
    \E i, j \in DOMAIN journey :
        /\ journey[i].journeytype = "Ticket"
        /\ journey[i].status = "Completed"
        /\ journey[j].journeytype = "Card"

\* C31: a Journey row that has an exittime has it strictly after its
\* entrytime, and an exit is never turned down by the time-sequence check,
\* the exit that happens at the clock instant of the entry included.
C31_ExitAfterEntry ==
    /\ [](\A j \in DOMAIN journey :
            journey[j].exittime # NULL => journey[j].exittime > journey[j].entrytime)
    /\ [][ \A p \in Procs :
              (proc[p].pc = "complete_update" /\ proc'[p].pc = "done")
                  => proc'[p].result.kind # "InternalError" ]_vars

C31_Witness ==
    \E j \in DOMAIN journey :
        /\ journey[j].status = "Completed"
        /\ now > 0
        /\ journey[j].entrytime = now
        /\ journey[j].exittime = journey[j].entrytime + OneSecond

\* C32: a Completed journey, ticket or card, has exitstationid, exittime and
\* farededucted set, farededucted being the fare of the journey (the fare paid
\* for the ticket, the current fare of the route for a card); an Active
\* journey has none of the three set.
C32_CompletionFields ==
    \A j \in DOMAIN journey :
        /\ journey[j].status = "Completed" =>
              /\ journey[j].exitstationid # NULL
              /\ journey[j].exittime # NULL
              /\ journey[j].farededucted # NULL
              /\ journey[j].farededucted =
                    IF journey[j].ticketid # NULL
                    THEN PaidFare(journey[j].ticketid)
                    ELSE get_current_fare(journey[j].entrystationid,
                                          journey[j].exitstationid,
                                          CurrentDate(journey[j].exittime - OneSecond))
        /\ journey[j].status = "Active" =>
              /\ journey[j].exitstationid = NULL
              /\ journey[j].exittime = NULL
              /\ journey[j].farededucted = NULL

\* The handler of a ticket entry reads a ticket that exists and is unused.
TicketEntryChecked(p) ==
    /\ proc[p].pc = "entry_media"
    /\ proc'[p].pc # "entry_media"
    /\ proc[p].mediaType = "Ticket"
    /\ proc[p].mediaId \in DOMAIN ticket
    /\ ~ticket[proc[p].mediaId].isused

\* C33: a ticket entry checked before validfrom or after validuntil is
\* answered TicketInvalid, creates no Journey and leaves the ticket unused;
\* from validfrom to validuntil, both ends included, the check admits the
\* ticket, and every ticket journey was started within that period.
C33_TicketValidity ==
    /\ [](\A j \in DOMAIN journey : journey[j].ticketid # NULL =>
            /\ ticket[journey[j].ticketid].validfrom <= journey[j].entrytime
            /\ journey[j].entrytime <= ticket[journey[j].ticketid].validuntil)
    /\ [][ \A p \in Procs : TicketEntryChecked(p) =>
              LET row == ticket[proc[p].mediaId]
              IN  IF now < row.validfrom \/ now > row.validuntil
                  THEN /\ proc'[p].pc = "done"
                       /\ proc'[p].result.kind = "TicketInvalid"
                       /\ UNCHANGED db
                  ELSE booking[row.bookingid].sourcestationid = proc[p].stationId
                          => proc'[p].pc = "entry_existing" ]_vars

C33_Witness ==
    \E p \in Procs, j \in DOMAIN journey :
        /\ proc[p].pc = "done"
        /\ proc[p].op = "entry"
        /\ proc[p].result.kind = "TicketInvalid"
        /\ journey[j].ticketid = proc[p].mediaId
        /\ journey[j].entrytime = ticket[journey[j].ticketid].validuntil

\* A gate call with a card is answered.
CardGateAnswered(p) ==
    /\ proc[p].pc # "done"
    /\ proc'[p].pc = "done"
    /\ proc[p].op \in {"entry", "exit"}
    /\ proc[p].mediaType = "Card"

\* C34: an inactive card is never debited: an exit call answered while the
\* card is inactive and its journey Active is answered CardInactive, an entry
\* call whose handler reads an inactive card is answered CardInactive and
\* creates no Journey, and no step changes the balance of an inactive card
\* or one of its journeys.
C34_InactiveCardNotDebited ==
    [][ /\ \A p \in Procs :
              ( /\ CardGateAnswered(p)
                /\ ~smartcard[proc[p].mediaId].isactive
                /\ \/ proc[p].op = "exit" /\ ActiveJourneys("Card", proc[p].mediaId) # {}
                   \/ proc[p].op = "entry" /\ proc[p].pc = "entry_media" )
                  => /\ proc'[p].result.kind = "CardInactive"
                     /\ UNCHANGED db
        /\ \A c \in DOMAIN smartcard : ~smartcard[c].isactive =>
              /\ smartcard'[c].balance = smartcard[c].balance
              /\ \A j \in JourneysOfCard(c) : journey'[j] = journey[j] ]_vars

\* An entry call reaches its INSERT although the media already has an Active
\* journey: a concurrent entry has won the race.
EntryRaceLost(p) ==
    /\ proc[p].pc = "start_insert"
    /\ proc'[p].pc = "done"
    /\ ActiveJourneys(proc[p].mediaType, proc[p].mediaId) # {}

\* An exit call with a card reaches complete_journey with a balance that no
\* longer covers the fare its handler checked: a concurrent debit has won.
DebitRaceLost(p) ==
    /\ proc[p].pc \in {"complete_select", "complete_update"}
    /\ proc'[p].pc = "done"
    /\ proc[p].mediaType = "Card"
    /\ smartcard[proc[p].mediaId].balance < proc[p].actualFare

\* C35: the call that loses a race on one media (the second of two entries,
\* the second of two debits against a balance that covers one) is answered
\* with the ConcurrencyConflict kind and changes no state.
C35_RaceLoserConflict ==
    [][ \A p \in Procs :
            (EntryRaceLost(p) \/ DebitRaceLost(p)) =>
                /\ proc'[p].result.kind = "ConcurrencyConflict"
                /\ UNCHANGED db ]_vars

\* C36: a ticket is admitted only at the source station of its booking: an
\* entry call that presents a valid unused ticket at another station is
\* rejected, creates no Journey and leaves the ticket unused, and every
\* ticket journey has the booking's source station as its entrystationid.
C36_EntryAtSourceOnly ==
    /\ [](\A j \in DOMAIN journey : journey[j].ticketid # NULL =>
            journey[j].entrystationid =
                booking[ticket[journey[j].ticketid].bookingid].sourcestationid)
    /\ [][ \A p \in Procs :
              ( /\ TicketEntryChecked(p)
                /\ ~OutsideValidity(now, ticket[proc[p].mediaId])
                /\ proc[p].stationId #
                      booking[ticket[proc[p].mediaId].bookingid].sourcestationid )
                  => /\ proc'[p].pc = "done"
                     /\ proc'[p].result.kind = "WrongEntryStation"
                     /\ UNCHANGED db ]_vars

C36_Witness ==
    \E p \in Procs, j \in DOMAIN journey :
        /\ proc[p].pc = "done"
        /\ proc[p].op = "entry"
        /\ proc[p].result.kind = "WrongEntryStation"
        /\ journey[j].ticketid = proc[p].mediaId
        /\ ticket[proc[p].mediaId].isused

C38_EventFareIsResponseFare ==
    [][ \A p \in Procs :
            (TicketExitAnswered(p) /\ proc'[p].result.ok) =>
                proc'[p].result.eventFareCharged = proc'[p].result.fareCharged ]_vars

\* C39: in every reachable state each user owns at most one active smart
\* card, also when two registerCard calls of one user are interleaved; and a
\* registerCard call of a user who has an active card is rejected and writes
\* no SmartCard, Transaction or Payment row.
C39_OneActiveCardPerUser ==
    /\ [](\A u \in RegisteringUsers : Cardinality(ActiveCardsOf(u)) <= 1)
    /\ [][ \A p \in Procs :
              ( /\ proc[p].pc = "idle"
                /\ proc'[p].op = "register"
                /\ ActiveCardsOf(proc'[p].userId) # {} )
                  => /\ proc'[p].pc = "done"
                     /\ ~proc'[p].result.ok
                     /\ UNCHANGED db ]_vars

\* The exit gate has taken a call for card c whose Active journey is j, after
\* a recharge, with a balance that covers the fare to the station of exit.
RetryWithFunds(p, j) ==
    /\ proc[p].op = "exit" /\ proc[p].mediaType = "Card"
    /\ proc[p].pc = "exit_find"
    /\ j \in ActiveJourneys("Card", proc[p].mediaId)
    /\ Len(recharge) >= 1
    /\ smartcard[proc[p].mediaId].balance >=
          get_current_fare(journey[j].entrystationid, proc[p].stationId,
                           CurrentDate(now))

\* The entry gate has taken a call for a card whose journey was completed
\* after a recharge and whose balance reaches the entry floor.
EntryAfterRetry(p) ==
    /\ proc[p].op = "entry" /\ proc[p].mediaType = "Card"
    /\ proc[p].pc = "entry_media"
    /\ Len(recharge) >= 1
    /\ ActiveJourneys("Card", proc[p].mediaId) = {}
    /\ \E j \in JourneysOfCard(proc[p].mediaId) : journey[j].status = "Completed"
    /\ smartcard[proc[p].mediaId].balance >= MinEntryBalance

\* C40: an Active card journey is not stuck by low funds: once a recharge
\* has raised the balance to the fare, the exit presented again succeeds and
\* completes that journey, and the entry presented after it starts a new one.
C40_RetriedExitSucceeds ==
    /\ \A p \in Procs, j \in 1..MaxJourneys :
          RetryWithFunds(p, j) ~>
              ( /\ proc[p].pc = "done" /\ proc[p].op = "exit"
                /\ proc[p].result.ok
                /\ proc[p].result.journeyId = j
                /\ journey[j].status = "Completed" )
    /\ \A p \in Procs :
          EntryAfterRetry(p) ~>
              ( /\ proc[p].pc = "done" /\ proc[p].op = "entry"
                /\ proc[p].result.ok
                /\ ActiveJourneys("Card", proc[p].mediaId) # {} )

C40_Witness ==
    /\ Len(recharge) = 1
    /\ Len(journey) = 2
    /\ journey[1].status = "Completed"
    /\ journey[1].farededucted = smartcard[1].balance + 1
    /\ journey[2].status = "Active"

====
